---- MODULE Spec2Model ----
(***************************************************************************)
(* Model of lib/model/recycle_gan.py: the ReCycleGAN orchestration class.  *)
(*                                                                         *)
(* A tensor is abstracted to what the orchestration code can observe:      *)
(*   dom  - the domain of the image ("A" / "B"), "None" for Python's None  *)
(*   idx  - the index of the frame inside its sequence                     *)
(*   deps - the parameter groups reachable through its autograd graph      *)
(*   dev  - the device it lives on                                         *)
(* A loss is a Python float (isTensor = FALSE) or a scalar tensor with the *)
(* parameter groups its graph reaches.                                     *)
(*                                                                         *)
(* The constructor arguments are drawn with T >= 1 and t >= 1 (T is "the   *)
(* total frame of video sequence in each training batch"), and setInput    *)
(* receives the T + t frames per domain that backward indexes.             *)
(***************************************************************************)
EXTENDS Integers, Sequences, FiniteSets, TLC

\* ------------------------------------------------------------------ bounds
MaxT == 3
Maxt == 2
BufferSize == 1

\* ------------------------------------------------------------ value domain
Devices == {"cpu", "cuda"}
OptimGParams == {"G_A_to_B", "G_B_to_A", "P_A", "P_B"}
OptimDParams == {"D_A", "D_B"}
Params == OptimGParams \cup OptimDParams

None == [dom |-> "None", idx |-> 0, deps |-> {}, dev |-> "cpu"]
IsNone(x) == x.dom = "None"
Frame(d, k) == [dom |-> d, idx |-> k, deps |-> {}, dev |-> "cpu"]
NoList == << None >>
Float0 == [isTensor |-> FALSE, deps |-> {}]

VARIABLES
    T, t,               \* the constructor arguments
    self_T, self_t,     \* self.T, self.t
    device,             \* self.device
    self_true_a_seq, self_true_b_seq,   \* set by setInput
    grad,               \* parameter group -> losses accumulated in .grad
    applied,            \* parameter group -> losses whose gradient a step applied
    fake_a_buffer, fake_b_buffer,       \* contents of the replay buffers
    pc, call, outcome,  \* position, running method, how the last call ended
    in_a, in_b, in_a_seq, in_b_seq,     \* forward: the arguments as passed
    loc,                \* forward: the local variables
    tup,                \* forward: the fake tuple under construction
    result,             \* forward: the returned dict
    invoked,            \* forward: networks invoked so far, in order
    frames,             \* backward: the four frame lists
    loss_G, loss_D,     \* self.loss_G, self.loss_D
    i,                  \* loop index of the running method
    pushes,             \* backward: push_and_pop calls of this call, in order
    trace               \* backward: optimizer / autograd operations, in order

objVars == << T, t, self_T, self_t, device >>
inVars == << self_true_a_seq, self_true_b_seq >>
optVars == << grad, applied >>
bufVars == << fake_a_buffer, fake_b_buffer >>
fwVars == << in_a, in_b, in_a_seq, in_b_seq, loc, tup, result, invoked >>
bwVars == << frames, loss_G, loss_D, pushes, trace >>
vars == << objVars, inVars, optVars, bufVars, pc, call, outcome, fwVars, bwVars, i >>

\* ------------------------------------------------------------- tensor ops
To(x, d) == [x EXCEPT !.dev = d]
ToList(s, d) == [k \in DOMAIN s |-> To(s[k], d)]
OutDom(net, x) == IF net = "G_A_to_B" THEN "B" ELSE IF net = "G_B_to_A" THEN "A" ELSE x.dom
Net(net, x) == [dom |-> OutDom(net, x), idx |-> x.idx, deps |-> x.deps \cup {net}, dev |-> x.dev]
RECURSIVE DepsOf(_)
DepsOf(s) == IF s = << >> THEN {} ELSE s[1].deps \cup DepsOf(Tail(s))
Cat(s) == [dom |-> s[1].dom, idx |-> s[Len(s)].idx, deps |-> DepsOf(s), dev |-> s[1].dev]
Detach(x) == [x EXCEPT !.deps = {}]
Mix(x, y) == [dom |-> x.dom, idx |-> x.idx, deps |-> x.deps \cup y.deps, dev |-> x.dev]
Slice(s, lo, hi) == SubSeq(s, lo + 1, hi)
\* torch.chunk(seq, n, dim = 1) followed by squeeze(1): with at most n frames
\* every chunk holds one frame, and the squeeze turns it into that frame.
Chunk(s, n) == [k \in 1 .. Len(s) |-> s[k]]
AddLoss(acc, l) == [isTensor |-> acc.isTensor \/ l.isTensor, deps |-> acc.deps \cup l.deps]

\* ---------------------------------------------------------- constructor
StoreT_noTuple(T0, t0) == T0
StoreT(T0, t0) == T0 + t0
EmptyLocals ==
    [true_a |-> None, true_b |-> None, true_a_seq |-> NoList, true_b_seq |-> NoList,
     fake_b_spat |-> None, fake_b_temp |-> None, fake_b |-> None, reco_a |-> None,
     fake_a_spat |-> None, fake_a_temp |-> None, fake_a |-> None, reco_b |-> None]
NoResult == [returned |-> FALSE]
NoFrames == [true_a |-> << >>, true_b |-> << >>, fake_a |-> << >>, fake_b |-> << >>]

Init ==
    /\ T \in 1 .. MaxT
    /\ t \in 1 .. Maxt
    /\ self_t = t
    /\ self_T = StoreT(T, t)
    /\ device \in Devices
    /\ self_true_a_seq = << >>
    /\ self_true_b_seq = << >>
    /\ grad = [p \in Params |-> {}]
    /\ applied = [p \in Params |-> {}]
    /\ fake_a_buffer = {}
    /\ fake_b_buffer = {}
    /\ pc = "idle"
    /\ call = "none"
    /\ outcome = "none"
    /\ in_a = None /\ in_b = None /\ in_a_seq = NoList /\ in_b_seq = NoList
    /\ loc = EmptyLocals
    /\ tup = << >>
    /\ result = NoResult
    /\ invoked = << >>
    /\ frames = NoFrames
    /\ loss_G = Float0
    /\ loss_D = Float0
    /\ i = 0
    /\ pushes = << >>
    /\ trace = << >>

\* ------------------------------------------------------------- setInput
setInput ==
    /\ pc = "idle"
    /\ self_true_a_seq' = ToList([k \in 1 .. self_T |-> Frame("A", k - 1)], device)
    /\ self_true_b_seq' = ToList([k \in 1 .. self_T |-> Frame("B", k - 1)], device)
    /\ call' = "setInput"
    /\ outcome' = "returned"
    /\ UNCHANGED << objVars, optVars, bufVars, pc, fwVars, bwVars, i >>

\* -------------------------------------------------------------- forward
AllNone_isNot(a, b, a_seq, b_seq) ==
    IsNone(a) /\ IsNone(b) /\ a_seq # NoList /\ b_seq # NoList
AllNone(a, b, a_seq, b_seq) ==
    IsNone(a) /\ IsNone(b) /\ a_seq = NoList /\ b_seq = NoList
DomainGiven(x, x_seq) == ~IsNone(x) /\ x_seq # NoList
DomainMisfilled_or(x, x_seq) == ~(IsNone(x) \/ x_seq = NoList)
DomainMisfilled(x, x_seq) == ~(IsNone(x) /\ x_seq = NoList)
ReturnDict_swapped(true_a, fake_b_spat, fake_b_temp, fake_b, reco_a, true_b, fake_a_spat, fake_a_temp, fake_a, reco_b) ==
    [returned |-> TRUE,
     true_a |-> true_a, fake_b_spat |-> fake_b_spat, fake_b_temp |-> fake_b_temp,
     fake_b |-> fake_a, reco_a |-> reco_a,
     true_b |-> true_b, fake_a_spat |-> fake_a_spat, fake_a_temp |-> fake_a_temp,
     fake_a |-> fake_b, reco_b |-> reco_b]
ReturnDict(true_a, fake_b_spat, fake_b_temp, fake_b, reco_a, true_b, fake_a_spat, fake_a_temp, fake_a, reco_b) ==
    [returned |-> TRUE,
     true_a |-> true_a, fake_b_spat |-> fake_b_spat, fake_b_temp |-> fake_b_temp,
     fake_b |-> fake_b, reco_a |-> reco_a,
     true_b |-> true_b, fake_a_spat |-> fake_a_spat, fake_a_temp |-> fake_a_temp,
     fake_a |-> fake_a, reco_b |-> reco_b]

Raise ==
    /\ outcome' = "raised"
    /\ pc' = "idle"

ForwardCall ==
    /\ pc = "idle"
    /\ \E a \in {None, Frame("A", self_t)}, b \in {None, Frame("B", self_t)},
          a_seq \in {NoList, [k \in 1 .. self_t |-> Frame("A", k - 1)]},
          b_seq \in {NoList, [k \in 1 .. self_t |-> Frame("B", k - 1)]} :
          /\ in_a' = a /\ in_b' = b /\ in_a_seq' = a_seq /\ in_b_seq' = b_seq
          /\ loc' = [EmptyLocals EXCEPT !.true_a = a, !.true_b = b,
                                        !.true_a_seq = a_seq, !.true_b_seq = b_seq]
    /\ tup' = << >>
    /\ result' = NoResult
    /\ invoked' = << >>
    /\ call' = "forward"
    /\ outcome' = "running"
    /\ pc' = "f_check"
    /\ UNCHANGED << objVars, inVars, optVars, bufVars, bwVars, i >>

ForwardCheck ==
    /\ pc = "f_check"
    /\ IF AllNone(loc.true_a, loc.true_b, loc.true_a_seq, loc.true_b_seq)
       THEN Raise
       ELSE pc' = "f_A" /\ UNCHANGED outcome
    /\ UNCHANGED << objVars, inVars, optVars, bufVars, call, fwVars, bwVars, i >>

ForwardDomainA ==
    /\ pc = "f_A"
    /\ IF DomainGiven(loc.true_a, loc.true_a_seq)
       THEN /\ loc' = [loc EXCEPT !.true_a = To(loc.true_a, device),
                                  !.true_a_seq = ToList(loc.true_a_seq, device)]
            /\ tup' = << >>
            /\ i' = 0
            /\ pc' = "f_A_tuple"
            /\ UNCHANGED outcome
       ELSE /\ IF DomainMisfilled(loc.true_a, loc.true_a_seq)
               THEN Raise
               ELSE pc' = "f_B" /\ UNCHANGED outcome
            /\ UNCHANGED << loc, tup, i >>
    /\ UNCHANGED << objVars, inVars, optVars, bufVars, call, bwVars,
                    in_a, in_b, in_a_seq, in_b_seq, result, invoked >>

ForwardTupleA ==
    /\ pc = "f_A_tuple"
    /\ i < self_t
    /\ tup' = Append(tup, Net("G_A_to_B", loc.true_a_seq[i + 1]))
    /\ invoked' = Append(invoked, "G_A_to_B")
    /\ i' = i + 1
    /\ UNCHANGED << objVars, inVars, optVars, bufVars, pc, call, outcome, bwVars,
                    in_a, in_b, in_a_seq, in_b_seq, loc, result >>

ForwardGenerateA ==
    /\ pc = "f_A_tuple"
    /\ i >= self_t
    /\ LET fake_b_tuple == Cat(tup)
           true_a_tuple == Cat(loc.true_a_seq)
           fake_b_spat == Net("G_A_to_B", loc.true_a)
           fake_b_temp == Net("P_B", fake_b_tuple)
       IN  loc' = [loc EXCEPT
                     !.fake_b_spat = fake_b_spat,
                     !.fake_b_temp = fake_b_temp,
                     !.fake_b = Mix(fake_b_spat, fake_b_temp),
                     !.reco_a = Mix(Net("G_B_to_A", Net("P_B", fake_b_tuple)),
                                    Net("P_A", true_a_tuple))]
    /\ invoked' = invoked \o << "G_A_to_B", "P_B", "P_B", "G_B_to_A", "P_A" >>
    /\ pc' = "f_B"
    /\ UNCHANGED << objVars, inVars, optVars, bufVars, call, outcome, bwVars,
                    in_a, in_b, in_a_seq, in_b_seq, tup, result, i >>

ForwardDomainB ==
    /\ pc = "f_B"
    /\ IF DomainGiven(loc.true_b, loc.true_b_seq)
       THEN /\ loc' = [loc EXCEPT !.true_b = To(loc.true_b, device),
                                  !.true_b_seq = ToList(loc.true_b_seq, device)]
            /\ tup' = << >>
            /\ i' = 0
            /\ pc' = "f_B_tuple"
            /\ UNCHANGED outcome
       ELSE /\ IF DomainMisfilled(loc.true_b, loc.true_b_seq)
               THEN Raise
               ELSE pc' = "f_ret" /\ UNCHANGED outcome
            /\ UNCHANGED << loc, tup, i >>
    /\ UNCHANGED << objVars, inVars, optVars, bufVars, call, bwVars,
                    in_a, in_b, in_a_seq, in_b_seq, result, invoked >>

ForwardTupleB ==
    /\ pc = "f_B_tuple"
    /\ i < self_t
    /\ tup' = Append(tup, Net("G_B_to_A", loc.true_b_seq[i + 1]))
    /\ invoked' = Append(invoked, "G_B_to_A")
    /\ i' = i + 1
    /\ UNCHANGED << objVars, inVars, optVars, bufVars, pc, call, outcome, bwVars,
                    in_a, in_b, in_a_seq, in_b_seq, loc, result >>

ForwardGenerateB ==
    /\ pc = "f_B_tuple"
    /\ i >= self_t
    /\ LET fake_a_tuple == Cat(tup)
           true_b_tuple == Cat(loc.true_b_seq)
           fake_a_spat == Net("G_B_to_A", loc.true_b)
           fake_a_temp == Net("P_A", fake_a_tuple)
       IN  loc' = [loc EXCEPT
                     !.fake_a_spat = fake_a_spat,
                     !.fake_a_temp = fake_a_temp,
                     !.fake_a = Mix(fake_a_spat, fake_a_temp),
                     !.reco_b = Mix(Net("G_A_to_B", Net("P_A", fake_a_tuple)),
                                    Net("P_B", true_b_tuple))]
    /\ invoked' = invoked \o << "G_B_to_A", "P_A", "P_A", "G_A_to_B", "P_B" >>
    /\ pc' = "f_ret"
    /\ UNCHANGED << objVars, inVars, optVars, bufVars, call, outcome, bwVars,
                    in_a, in_b, in_a_seq, in_b_seq, tup, result, i >>

ForwardReturn ==
    /\ pc = "f_ret"
    /\ result' = ReturnDict(loc.true_a, loc.fake_b_spat, loc.fake_b_temp, loc.fake_b,
                            loc.reco_a, loc.true_b, loc.fake_a_spat, loc.fake_a_temp,
                            loc.fake_a, loc.reco_b)
    /\ outcome' = "returned"
    /\ pc' = "idle"
    /\ UNCHANGED << objVars, inVars, optVars, bufVars, call, bwVars,
                    in_a, in_b, in_a_seq, in_b_seq, loc, tup, invoked, i >>

\* ---------------------------------------------------- losses and buffers
updateGenerator(true_x_tuple, fake_y_tuple, true_x_next, fake_y_next, P_X, P_Y, net_Y_to_X, net_D) ==
    LET fake_x_next == Net(P_X, true_x_tuple)
        reco_x_next == Net(net_Y_to_X, Net(P_Y, fake_y_tuple))
        fake_pred == Net(net_D, fake_y_next)
    IN  [isTensor |-> TRUE,
         deps |-> fake_pred.deps \cup reco_x_next.deps \cup true_x_next.deps
                  \cup fake_x_next.deps]

updateDiscriminator_noDetach(fake_frame, true_frame, net_D) ==
    LET fake_pred == Net(net_D, fake_frame)
        true_pred == Net(net_D, true_frame)
    IN  [isTensor |-> TRUE, deps |-> true_pred.deps \cup fake_pred.deps]
updateDiscriminator(fake_frame, true_frame, net_D) ==
    LET fake_pred == Net(net_D, Detach(fake_frame))
        true_pred == Net(net_D, true_frame)
    IN  [isTensor |-> TRUE, deps |-> true_pred.deps \cup fake_pred.deps]

\* ReplayBuffer.push_and_pop: a bounded cache. While there is room the frame is
\* stored and handed back; once full, the call hands back either the frame
\* itself or a stored frame that the new frame replaces.
push_and_pop(buf, x) ==
    IF Cardinality(buf) < BufferSize
    THEN {[ret |-> x, buf |-> buf \cup {x}]}
    ELSE {[ret |-> x, buf |-> buf]}
         \cup {[ret |-> y, buf |-> (buf \ {y}) \cup {x}] : y \in buf}

ZeroGrad(g, ps) == [p \in Params |-> IF p \in ps THEN {} ELSE g[p]]
Backprop(g, loss, name) ==
    [p \in Params |-> IF p \in loss.deps THEN g[p] \cup {name} ELSE g[p]]
Step(a, g, ps) == [p \in Params |-> IF p \in ps THEN a[p] \cup g[p] ELSE a[p]]

\* ------------------------------------------------------------- backward
BackwardCall ==
    /\ pc = "idle"
    /\ self_true_a_seq # << >>
    /\ frames' = [true_a |-> Chunk(self_true_a_seq, self_T),
                  true_b |-> Chunk(self_true_b_seq, self_T),
                  fake_a |-> << >>, fake_b |-> << >>]
    /\ loss_D' = Float0
    /\ loss_G' = Float0
    /\ i' = 0
    /\ pushes' = << >>
    /\ trace' = << >>
    /\ call' = "backward"
    /\ outcome' = "running"
    /\ pc' = "b_gen"
    /\ UNCHANGED << objVars, inVars, optVars, bufVars, fwVars >>

BackwardGenerate ==
    /\ pc = "b_gen"
    /\ i < self_T
    /\ frames' = [frames EXCEPT
                    !.fake_b = Append(@, Net("G_A_to_B", frames.true_a[i + 1])),
                    !.fake_a = Append(@, Net("G_B_to_A", frames.true_b[i + 1]))]
    /\ IF i + 1 < self_T
       THEN i' = i + 1 /\ UNCHANGED pc
       ELSE i' = self_t /\ pc' = "b_loop"
    /\ UNCHANGED << objVars, inVars, optVars, bufVars, call, outcome, fwVars,
                    loss_G, loss_D, pushes, trace >>

BackwardAccumulate ==
    /\ pc = "b_loop"
    /\ i < self_T
    /\ LET true_a_tuple == Detach(Cat(Slice(frames.true_a, i - self_t, i)))
           fake_b_tuple == Detach(Cat(Slice(frames.fake_b, i - self_t, i)))
           true_b_tuple == Detach(Cat(Slice(frames.true_b, i - self_t, i)))
           fake_a_tuple == Detach(Cat(Slice(frames.fake_a, i - self_t, i)))
           gA == updateGenerator(true_a_tuple, fake_b_tuple, frames.true_a[i + 1],
                                 frames.true_b[i + 1], "P_A", "P_B", "G_B_to_A", "D_B")
           gB == updateGenerator(true_b_tuple, fake_a_tuple, frames.true_b[i + 1],
                                 frames.true_a[i + 1], "P_B", "P_A", "G_A_to_B", "D_A")
       IN  /\ loss_G' = AddLoss(AddLoss(loss_G, gA), gB)
           /\ \E pb \in push_and_pop(fake_b_buffer, frames.fake_b[i + 1]),
                 pa \in push_and_pop(fake_a_buffer, frames.fake_a[i + 1]) :
                 /\ fake_b_buffer' = pb.buf
                 /\ fake_a_buffer' = pa.buf
                 /\ pushes' = pushes \o
                        << [buffer |-> "fake_b_buffer", frame |-> frames.fake_b[i + 1]],
                           [buffer |-> "fake_a_buffer", frame |-> frames.fake_a[i + 1]] >>
                 /\ loss_D' = AddLoss(
                        AddLoss(loss_D,
                                updateDiscriminator(pb.ret, frames.true_b[i + 1], "D_B")),
                        updateDiscriminator(pa.ret, frames.true_a[i + 1], "D_A"))
    /\ i' = i + 1
    /\ UNCHANGED << objVars, inVars, optVars, pc, call, outcome, fwVars, frames, trace >>

OptimGZeroGrad ==
    /\ pc = "b_loop"
    /\ i >= self_T
    /\ grad' = ZeroGrad(grad, OptimGParams)
    /\ trace' = Append(trace, "optim_G.zero_grad")
    /\ pc' = "b_loss_G_backward"
    /\ UNCHANGED << objVars, inVars, applied, bufVars, call, outcome, fwVars,
                    frames, loss_G, loss_D, pushes, i >>

LossGBackward ==
    /\ pc = "b_loss_G_backward"
    /\ loss_G.isTensor
    /\ grad' = Backprop(grad, loss_G, "loss_G")
    /\ trace' = Append(trace, "loss_G.backward")
    /\ pc' = "b_optim_G_step"
    /\ UNCHANGED << objVars, inVars, applied, bufVars, call, outcome, fwVars,
                    frames, loss_G, loss_D, pushes, i >>

OptimGStep ==
    /\ pc = "b_optim_G_step"
    /\ applied' = Step(applied, grad, OptimGParams)
    /\ trace' = Append(trace, "optim_G.step")
    /\ pc' = "b_optim_D_zero_grad"
    /\ UNCHANGED << objVars, inVars, grad, bufVars, call, outcome, fwVars,
                    frames, loss_G, loss_D, pushes, i >>

OptimDZeroGrad ==
    /\ pc = "b_optim_D_zero_grad"
    /\ grad' = ZeroGrad(grad, OptimDParams)
    /\ trace' = Append(trace, "optim_D.zero_grad")
    /\ pc' = "b_loss_D_backward"
    /\ UNCHANGED << objVars, inVars, applied, bufVars, call, outcome, fwVars,
                    frames, loss_G, loss_D, pushes, i >>

LossDBackward ==
    /\ pc = "b_loss_D_backward"
    /\ loss_D.isTensor
    /\ grad' = Backprop(grad, loss_D, "loss_D")
    /\ trace' = Append(trace, "loss_D.backward")
    /\ pc' = "b_optim_D_step"
    /\ UNCHANGED << objVars, inVars, applied, bufVars, call, outcome, fwVars,
                    frames, loss_G, loss_D, pushes, i >>

OptimDStep ==
    /\ pc = "b_optim_D_step"
    /\ applied' = Step(applied, grad, OptimDParams)
    /\ trace' = Append(trace, "optim_D.step")
    /\ outcome' = "returned"
    /\ pc' = "idle"
    /\ UNCHANGED << objVars, inVars, grad, bufVars, call, fwVars,
                    frames, loss_G, loss_D, pushes, i >>

Next ==
    \/ setInput
    \/ ForwardCall
    \/ ForwardCheck
    \/ ForwardDomainA
    \/ ForwardTupleA
    \/ ForwardGenerateA
    \/ ForwardDomainB
    \/ ForwardTupleB
    \/ ForwardGenerateB
    \/ ForwardReturn
    \/ BackwardCall
    \/ BackwardGenerate
    \/ BackwardAccumulate
    \/ OptimGZeroGrad
    \/ LossGBackward
    \/ OptimGStep
    \/ OptimDZeroGrad
    \/ LossDBackward
    \/ OptimDStep

Spec == Init /\ [][Next]_vars

\* ================================================================ claims
ForwardEnded == call = "forward" /\ pc = "idle"
InputsAllNone == IsNone(in_a) /\ IsNone(in_b) /\ in_a_seq = NoList /\ in_b_seq = NoList
HalfFilledA == IsNone(in_a) # (in_a_seq = NoList)
HalfFilledB == IsNone(in_b) # (in_b_seq = NoList)
FilledA == ~IsNone(in_a) /\ in_a_seq # NoList
FilledB == ~IsNone(in_b) /\ in_b_seq # NoList
EmptyA == IsNone(in_a) /\ in_a_seq = NoList
EmptyB == IsNone(in_b) /\ in_b_seq = NoList
RenderedA ==
    /\ ~IsNone(result.true_a) /\ ~IsNone(result.fake_b_spat) /\ ~IsNone(result.fake_b_temp)
    /\ ~IsNone(result.fake_b) /\ ~IsNone(result.reco_a)
RenderedB ==
    /\ ~IsNone(result.true_b) /\ ~IsNone(result.fake_a_spat) /\ ~IsNone(result.fake_a_temp)
    /\ ~IsNone(result.fake_a) /\ ~IsNone(result.reco_b)
BlankA ==
    /\ IsNone(result.true_a) /\ IsNone(result.fake_b_spat) /\ IsNone(result.fake_b_temp)
    /\ IsNone(result.fake_b) /\ IsNone(result.reco_a)
BlankB ==
    /\ IsNone(result.true_b) /\ IsNone(result.fake_a_spat) /\ IsNone(result.fake_a_temp)
    /\ IsNone(result.fake_a) /\ IsNone(result.reco_b)

\* C1: forward called with true_a, true_b, true_a_seq and true_b_seq all None
\* raises; no generator or predictor has been invoked at any point of the call
\* and no result dict is returned.
C1_AllNoneRaises ==
    (call = "forward" /\ InputsAllNone) =>
        /\ invoked = << >>
        /\ result = NoResult
        /\ pc \in {"f_check", "idle"}
        /\ pc = "idle" => outcome = "raised"
C1_Witness == ForwardEnded /\ InputsAllNone /\ outcome = "raised"

\* C2: for each domain X, when exactly one of true_x and true_x_seq is None the
\* forward call never reaches its return statement, returns no result dict and
\* ends by raising, whatever the inputs of the other domain are.
C2_HalfFilledRaises ==
    (call = "forward" /\ (HalfFilledA \/ HalfFilledB)) =>
        /\ outcome # "returned"
        /\ result = NoResult
        /\ pc # "f_ret"
        /\ HalfFilledA => pc \in {"f_check", "f_A", "idle"}
        /\ pc = "idle" => outcome = "raised"
C2_Witness ==
    /\ ForwardEnded /\ FilledA /\ HalfFilledB
    /\ outcome = "raised" /\ invoked # << >>

\* C3: forward renders a direction exactly when that domain's inputs are given:
\* a call with only domain A filled returns a dict whose five A -> B -> A entries
\* are not None and whose five B -> A -> B entries are None, symmetrically with
\* only domain B filled, and with both domains filled all ten entries are not None.
C3_RendersGivenDomains ==
    /\ (ForwardEnded /\ (FilledA \/ EmptyA) /\ (FilledB \/ EmptyB) /\ ~InputsAllNone)
           => outcome = "returned"
    /\ (call = "forward" /\ outcome = "returned") =>
           /\ result.returned
           /\ (FilledA /\ EmptyB) => (RenderedA /\ BlankB)
           /\ (EmptyA /\ FilledB) => (BlankA /\ RenderedB)
           /\ (FilledA /\ FilledB) => (RenderedA /\ RenderedB)
C3_Witness ==
    /\ ForwardEnded /\ outcome = "returned" /\ FilledA /\ EmptyB
    /\ RenderedA /\ BlankB

BackwardDone == call = "backward" /\ outcome = "returned"
UpdateOrder ==
    << "optim_G.zero_grad", "loss_G.backward", "optim_G.step",
       "optim_D.zero_grad", "loss_D.backward", "optim_D.step" >>

====
